---- MODULE Spec2Model ----
(***************************************************************************)
(* Model of the ingestion and storage layer of the financial pipeline:     *)
(* FinancePipeline (src/src/pipeline.py), the Alpha Vantage predecessor    *)
(* (src/src/pipeline_OLD.py) and the dashboard handlers that write through *)
(* FinancePipeline.query (src/app.py).                                     *)
(*                                                                         *)
(* The store is an SQLite file.  `db` is its committed content, `conn` is  *)
(* the connection held in self.conn together with the content that         *)
(* connection sees (its uncommitted transaction included).                 *)
(***************************************************************************)
EXTENDS Integers, Sequences, FiniteSets, Bags, TLC

VARIABLES
    db,      \* committed tables of the SQLite file
    conn,    \* self.conn: [open, intx, view, id]
    now,     \* the wall clock read by datetime.now(): [h, us], and its advances n
    batch,   \* the running fetch_prices_batch_yahoo / refetch_all_symbols_yahoo call
    cw,      \* the running create_watchlist call
    last     \* descriptor of the call that made the last step

vars == <<db, conn, now, batch, cw, last>>

-----------------------------------------------------------------------------
(* Bounds of the model *)

MaxDay == 2        \* trading days 1..MaxDay
MaxCalls == 3      \* rows of api_calls (the log is unbounded in the program)
MaxBatch == 3      \* symbols of one batch call
MaxTicks == 3      \* times the clock is advanced in a behaviour
MaxMembers == 2    \* symbols of one create_watchlist call
MaxMemberRows == 3 \* rows of watchlist_symbols
MaxId == 3                 \* largest watchlists.id
MaxAlphaTicks == 2         \* clock advances between Alpha Vantage calls

-----------------------------------------------------------------------------
(* Values *)

Symbols == {"A", "B"}
Days == 1 .. MaxDay
NaN == 0 - 1                    \* float('nan') in a Volume cell
YAHOO == "yahoo_finance"
ALPHA == "alpha_vantage"
Sources == {YAHOO, ALPHA}

\* pandas Timestamp of a DataFrame index: one per trading day
Timestamps == Days

Digit(d) == 48 + d

\* date.strftime('%Y-%m'): the trading days of one month print alike
StrfMonth(ts) == << Digit(0), Digit(0) >>

\* date.strftime('%Y-%m-%d'): the date as text (a string of character codes)
StrfTime(ts) == << Digit(ts \div 10), Digit(ts % 10) >>

Bars ==
    { [Open |-> 1, High |-> 2, Low |-> 1, Close |-> 2, Volume |-> 10],
      [Open |-> 3, High |-> 4, Low |-> 3, Close |-> 4, Volume |-> 20],
      [Open |-> 1, High |-> 2, Low |-> 1, Close |-> 2, Volume |-> NaN] }

\* One row of the DataFrame returned by yf.Ticker(symbol).history(period)
SourceRows == [Date : Timestamps, bar : Bars]

\* The DataFrames: one row per trading day at most, the index increasing
DataFrames ==
    { df \in UNION { [1 .. n -> SourceRows] : n \in 0 .. MaxDay } :
        \A i \in 1 .. Len(df) - 1 : df[i].Date < df[i + 1].Date }

\* What ticker.history() does: raise (network, unknown ticker) or return a frame
Histories ==
    { [exc |-> "ConnectionError", df |-> << >>] } \cup
    { [exc |-> "none", df |-> df] : df \in DataFrames }

-----------------------------------------------------------------------------
(* Strings that the code compares: sequences of character codes *)

RECURSIVE StrLess(_, _)
\* SQLite's BINARY collation (memcmp, then the shorter string first)
StrLess(a, b) ==
    IF b = << >> THEN FALSE
    ELSE IF a = << >> THEN TRUE
    ELSE IF Head(a) # Head(b) THEN Head(a) < Head(b)
    ELSE StrLess(Tail(a), Tail(b))

StrGeq(a, b) == ~StrLess(a, b)

\* datetime.isoformat(): the fraction is printed only when it is not zero
IsoFormat(t) ==
    << Digit(t.h \div 100), Digit((t.h \div 10) % 10), Digit(t.h % 10) >>
    \o (IF t.us = 0 THEN << >> ELSE << 46, Digit(t.us) >>)   \* "." and the fraction

\* datetime.now() - timedelta(hours=hours)
MinusHours(t, hours) == [h |-> t.h - hours, us |-> t.us]

StartHour == 100               \* the clock reading at construction
UsageWindows == {1, 24, 48}    \* hours= arguments of get_api_usage
TickHours == {1, 9, 20}        \* hours that pass between two calls
Fractions == {0, 5}            \* tenths of a second of a clock reading


-----------------------------------------------------------------------------
(* The store.  A table is a bag of rows (daily_prices), a set of rows      *)
(* where the schema makes every row distinct (watchlists) or a sequence in *)
(* rowid order (api_calls, watchlist_symbols).                             *)

EmptyStore(autoincrement) ==
    [ symbols           |-> EmptyBag,
      daily_prices      |-> EmptyBag,
      macro_data        |-> EmptyBag,
      api_calls         |-> << >>,
      watchlists        |-> {},
      watchlist_symbols |-> << >>,
      autoincrement     |-> autoincrement,   \* how the schema declares watchlists.id
      sqlite_sequence   |-> 0 ]              \* largest watchlists.id ever assigned

\* daily_prices ... UNIQUE(symbol, timestamp)
PriceKey(r) == << r.symbol, r.timestamp >>

\* The rowid SQLite assigns to a new watchlists row: one more than the largest
\* id in the table, or than the largest id ever assigned under AUTOINCREMENT.
Max(S) == IF S = {} THEN 0 ELSE CHOOSE m \in S : \A x \in S : x <= m

NextRowId(view) ==
    LET inUse == Max({ w.id : w \in view.watchlists })
    IN  IF view.autoincrement
        THEN Max({inUse, view.sqlite_sequence}) + 1
        ELSE inUse + 1

-----------------------------------------------------------------------------
(* The connection *)

World == [db |-> db, conn |-> conn]

\* The connection object sqlite3.connect returns: a new object, distinct from
\* the one self.conn refers to while the call runs (0 stands for None)
NewConnection(current) == IF current = 1 THEN 2 ELSE 1

\* sqlite3.connect(...) in FinancePipeline.connect: a new connection replaces
\* self.conn on every call; the replaced connection is closed when its last
\* reference goes, and its uncommitted transaction is rolled back.  No PRAGMA
\* is issued on the new connection.
Connect(w) ==
    [w EXCEPT !.conn = [open |-> TRUE, intx |-> FALSE, view |-> w.db,
                        id |-> NewConnection(w.conn.id)]]

\* FinancePipeline.disconnect
Disconnect(w) ==
    [w EXCEPT !.conn = [open |-> FALSE, intx |-> FALSE, view |-> w.db, id |-> 0]]

\* A data-changing statement: sqlite3 opens a transaction before it
Execute(w, newView) ==
    [w EXCEPT !.conn.view = newView, !.conn.intx = TRUE]

\* conn.commit()
Commit(w) ==
    [db |-> w.conn.view, conn |-> [w.conn EXCEPT !.intx = FALSE]]

-----------------------------------------------------------------------------
(* Statements *)

\* INSERT INTO daily_prices ... without a conflict clause
PlainInsertPrice(w, row) ==
    Execute(w, [w.conn.view EXCEPT !.daily_prices = @ (+) SetToBag({row})])

\* INSERT OR IGNORE INTO daily_prices: a row that conflicts is not inserted
InsertOrIgnorePrice(w, row) ==
    IF \E r \in DOMAIN w.conn.view.daily_prices : PriceKey(r) = PriceKey(row)
    THEN Execute(w, w.conn.view)
    ELSE Execute(w, [w.conn.view EXCEPT !.daily_prices = @ (+) SetToBag({row})])

\* INSERT OR REPLACE INTO daily_prices: the rows that conflict with the new
\* one on UNIQUE(symbol, timestamp) are deleted, then the row is inserted
InsertOrReplacePrice(w, row) ==
    LET old  == w.conn.view.daily_prices
        keep == { r \in DOMAIN old : PriceKey(r) # PriceKey(row) }
        kept == [r \in keep |-> old[r]]
    IN  Execute(w, [w.conn.view EXCEPT !.daily_prices = kept (+) SetToBag({row})])

\* DELETE FROM daily_prices, without the WHERE clause
DeleteAllPrices(w, symbol) ==
    Execute(w, [w.conn.view EXCEPT !.daily_prices = EmptyBag])

\* DELETE FROM daily_prices WHERE symbol = ?
DeletePrices(w, symbol) ==
    LET old  == w.conn.view.daily_prices
        keep == { r \in DOMAIN old : r.symbol # symbol }
    IN  Execute(w, [w.conn.view EXCEPT !.daily_prices = [r \in keep |-> old[r]]])

\* INSERT OR REPLACE INTO api_calls keyed by source: the earlier rows of the
\* source are deleted
ReplaceApiCall(w, rec) ==
    LET Other(r) == r.source # rec.source
    IN  Execute(w, [w.conn.view EXCEPT
                       !.api_calls = Append(SelectSeq(@, Other), rec)])

\* INSERT INTO api_calls (source, endpoint, symbol, timestamp)
InsertApiCall(w, rec) ==
    Execute(w, [w.conn.view EXCEPT !.api_calls = Append(@, rec)])

\* create_watchlist without its DELETE: the statement removes nothing
KeepWatchlistHeader(w, name) ==
    Execute(w, w.conn.view)

\* DELETE FROM watchlists WHERE name = ?  The connection never ran
\* PRAGMA foreign_keys = ON, so SQLite applies no foreign-key action to the
\* watchlist_symbols rows of the deleted header.
DeleteWatchlistHeader(w, name) ==
    Execute(w, [w.conn.view EXCEPT !.watchlists = { x \in @ : x.name # name }])

\* INSERT INTO watchlists (name) VALUES (?), the id taken from NextRowId
InsertWatchlist(w, name) ==
    LET id == NextRowId(w.conn.view)
    IN  Execute(w, [w.conn.view EXCEPT
                       !.watchlists = @ \cup { [id |-> id, name |-> name] },
                       !.sqlite_sequence = IF w.conn.view.autoincrement THEN id ELSE @])

\* INSERT INTO watchlist_symbols (watchlist_id, symbol) VALUES (?, ?)
InsertWatchlistSymbol(w, id, symbol) ==
    Execute(w, [w.conn.view EXCEPT
                   !.watchlist_symbols = Append(@, [watchlist_id |-> id, symbol |-> symbol])])

\* SELECT ws.symbol FROM watchlists w JOIN watchlist_symbols ws
\*   ON w.id = ws.watchlist_id WHERE w.name = ?
SelectWatchlist(view, name) ==
    LET ids   == { x.id : x \in { y \in view.watchlists : y.name = name } }
        In(r) == r.watchlist_id \in ids
        rows  == SelectSeq(view.watchlist_symbols, In)
    IN  [i \in 1 .. Len(rows) |-> rows[i].symbol]

-----------------------------------------------------------------------------
(* ApiUsageTracker *)

\* log_api_call without its self.conn.commit()
LogWithoutCommit(w, source, endpoint, symbol, t) ==
    InsertApiCall(Connect(w),
        [source |-> source, endpoint |-> endpoint, symbol |-> symbol,
         timestamp |-> IsoFormat(t)])

\* FinancePipeline.log_api_call(source, endpoint, symbol), the clock reading t
log_api_call(w, source, endpoint, symbol, t) ==
    Commit(InsertApiCall(Connect(w),
        [source |-> source, endpoint |-> endpoint, symbol |-> symbol,
         timestamp |-> IsoFormat(t)]))

\* WHERE source = ? AND timestamp > ?
UsageRowStrict(r, source, cutoff) ==
    r.source = source /\ StrLess(cutoff, r.timestamp)

\* WHERE source = ? AND timestamp >= ?
UsageRow(r, source, cutoff) ==
    r.source = source /\ StrGeq(r.timestamp, cutoff)

\* FinancePipeline.get_api_usage(source, hours): SELECT COUNT(*) ...
get_api_usage(w, source, hours, t) ==
    LET cutoff == IsoFormat(MinusHours(t, hours))
        w1     == Connect(Connect(w))      \* self.connect(), then query()'s
        rows   == w1.conn.view.api_calls
    IN  [w   |-> w1,
         ret |-> Cardinality({ i \in 1 .. Len(rows) : UsageRow(rows[i], source, cutoff) })]

-----------------------------------------------------------------------------
(* PriceSeriesIngester *)

\* int(row['Volume']) raises ValueError on nan; float() of the price cells
\* and int() of a whole volume keep the number
IntRaises(x) == x = NaN

\* The row bound to the INSERT statement of fetch_prices_yahoo
PriceRow(symbol, r) ==
    [ symbol    |-> symbol,
      timestamp |-> StrfTime(r.Date),
      open      |-> r.bar.Open,
      high      |-> r.bar.High,
      low       |-> r.bar.Low,
      close     |-> r.bar.Close,
      volume    |-> r.bar.Volume,
      source    |-> YAHOO ]

RECURSIVE InsertRows(_, _, _, _)
\* for date, row in df.iterrows(): cursor.execute(INSERT OR REPLACE ...); count += 1
\* Rows i.. of df; stops at the first row whose conversion raises.
InsertRows(w, symbol, df, i) ==
    IF i > Len(df) THEN [w |-> w, exc |-> "none", count |-> i - 1]
    ELSE IF IntRaises(df[i].bar.Volume)
         THEN [w |-> w, exc |-> "ValueError", count |-> i - 1]
         ELSE InsertRows(InsertOrReplacePrice(w, PriceRow(symbol, df[i])), symbol, df, i + 1)

\* fetch_prices_yahoo without its conn.commit()
FetchWithoutCommit(w, symbol, hist, t) ==
    IF hist.exc # "none" THEN [w |-> w, exc |-> hist.exc, count |-> 0]
    ELSE IF hist.df = << >> THEN [w |-> w, exc |-> "Exception", count |-> 0]
    ELSE InsertRows(Connect(log_api_call(w, YAHOO, "history", symbol, t)),
                    symbol, hist.df, 1)

\* fetch_prices_yahoo logging the call before it looks at the frame
FetchLogsFirst(w, symbol, hist, t) ==
    IF hist.exc # "none" THEN [w |-> w, exc |-> hist.exc, count |-> 0]
    ELSE LET logged == log_api_call(w, YAHOO, "history", symbol, t)
             ins    == InsertRows(Connect(logged), symbol, hist.df, 1)
         IN  IF hist.df = << >> THEN [w |-> logged, exc |-> "Exception", count |-> 0]
             ELSE IF ins.exc # "none" THEN ins
             ELSE [w |-> Commit(ins.w), exc |-> "none", count |-> ins.count]

\* fetch_prices_yahoo without its `if df.empty: raise`
FetchWithoutEmptyCheck(w, symbol, hist, t) ==
    IF hist.exc # "none" THEN [w |-> w, exc |-> hist.exc, count |-> 0]
    ELSE LET logged == log_api_call(w, YAHOO, "history", symbol, t)
             ins    == InsertRows(Connect(logged), symbol, hist.df, 1)
         IN  IF ins.exc # "none" THEN ins
             ELSE [w |-> Commit(ins.w), exc |-> "none", count |-> ins.count]

\* FinancePipeline.fetch_prices_yahoo(symbol, period) when ticker.history()
\* does `hist`, at clock reading t.  exc is the exception that leaves the
\* call ("none": it returns), count the local row counter.
fetch_prices_yahoo(w, symbol, hist, t) ==
    IF hist.exc # "none" THEN [w |-> w, exc |-> hist.exc, count |-> 0]
    ELSE IF hist.df = << >> THEN [w |-> w, exc |-> "Exception", count |-> 0]
    ELSE LET logged == log_api_call(w, YAHOO, "history", symbol, t)
             ins    == InsertRows(Connect(logged), symbol, hist.df, 1)
         IN  IF ins.exc # "none" THEN ins
             ELSE [w |-> Commit(ins.w), exc |-> "none", count |-> ins.count]

\* clear_symbol_prices without its conn.commit()
ClearWithoutCommit(w, symbol) ==
    DeletePrices(Connect(w), symbol)

\* FinancePipeline.clear_symbol_prices(symbol)
clear_symbol_prices(w, symbol) ==
    Commit(DeletePrices(Connect(w), symbol))

-----------------------------------------------------------------------------
(* Calls and their descriptors *)

NoHistory == [exc |-> "none", df |-> << >>]

\* Python's None where a count is expected
None == 0 - 1

\* `last` when no call has been made
NoCall ==
    [ op |-> "none", symbol |-> "", hist |-> NoHistory, exc |-> "none",
      count |-> 0, ret |-> None, source |-> "", hours |-> 0, name |-> "",
      symbols |-> << >>, series |-> << >>, repeat |-> FALSE, overwrote |-> FALSE,
      same |-> FALSE, defaulted |-> FALSE, called |-> FALSE, reached |-> FALSE,
      path |-> << >>, loaded |-> << >>, data |-> << >>, files |-> << >>,
      success_count |-> 0, fail_count |-> 0, escaped |-> FALSE ]

Idle == [op |-> "idle", symbols |-> << >>, i |-> 0, success_count |-> 0, fail_count |-> 0]

CwIdle == [pc |-> "idle", name |-> "", symbols |-> << >>, i |-> 0, watchlist_id |-> 0,
           old |-> << >>]

NoCallRunning == batch.op = "idle" /\ cw.pc = "idle"

\* The model stops logging at MaxCalls rows of api_calls
LogHasRoom == Len(db.api_calls) < MaxCalls

\* The exceptions a fetch can leave with, all subclasses of Exception
ExceptionClasses == {"Exception", "ValueError", "ConnectionError", "OperationalError"}

\* except ValueError: a handler for one class only
CaughtValueError(exc) == exc = "ValueError"

\* except Exception as e: the handler of both batch loops
Caught(exc) == exc \in ExceptionClasses

\* Some row of df lands on a (symbol, date) that holds a different row
Overwrites(symbol, df) ==
    \E i \in 1 .. Len(df) : \E r \in DOMAIN db.daily_prices :
        /\ PriceKey(r) = << symbol, StrfTime(df[i].Date) >>
        /\ r # PriceRow(symbol, df[i])

\* Some row stored for the symbol is not a row of df
Stale(symbol, df) ==
    \E r \in DOMAIN db.daily_prices :
        /\ r.symbol = symbol
        /\ \A i \in 1 .. Len(df) : r # PriceRow(symbol, df[i])

Apply(w) == db' = w.db /\ conn' = w.conn

-----------------------------------------------------------------------------
(* Actions of the price ingester *)

\* fetchOne: a direct call of fetch_prices_yahoo; its exception goes to the caller
FetchOne(symbol, hist) ==
    /\ NoCallRunning
    /\ LogHasRoom
    /\ LET r == fetch_prices_yahoo(World, symbol, hist, now)
       IN  /\ Apply(r.w)
           /\ last' = [NoCall EXCEPT !.op = "fetchOne", !.symbol = symbol, !.hist = hist,
                          !.exc = r.exc, !.count = r.count, !.ret = None,
                          !.repeat = /\ last.op = "fetchOne" /\ last.exc = "none"
                                     /\ last.symbol = symbol /\ last.hist = hist,
                          !.overwrote = Overwrites(symbol, hist.df),
                          !.same = r.w.db.daily_prices = db.daily_prices]
    /\ UNCHANGED <<now, batch, cw>>

\* clearSymbol
ClearSymbol(symbol) ==
    /\ NoCallRunning
    /\ Apply(clear_symbol_prices(World, symbol))
    /\ last' = [NoCall EXCEPT !.op = "clearSymbol", !.symbol = symbol,
                   !.overwrote = \E r \in DOMAIN db.daily_prices : r.symbol = symbol]
    /\ UNCHANGED <<now, batch, cw>>

SymbolLists == UNION { [1 .. n -> Symbols] : n \in 0 .. MaxBatch }

\* fetch_prices_batch_yahoo(symbols, period): entry, up to the loop
FetchBatchStart(symbols) ==
    /\ NoCallRunning
    /\ batch' = [Idle EXCEPT !.op = "fetchBatch", !.symbols = symbols, !.i = 1]
    /\ last' = [NoCall EXCEPT !.op = "fetchBatchStart", !.symbols = symbols]
    /\ UNCHANGED <<db, conn, now, cw>>

\* One iteration of the loop of fetch_prices_batch_yahoo (try / except included)
FetchBatchStep(hist) ==
    /\ batch.op = "fetchBatch"
    /\ batch.i <= Len(batch.symbols)
    /\ LogHasRoom
    /\ LET symbol == batch.symbols[batch.i]
           r == fetch_prices_yahoo(World, symbol, hist, now)
           d == [NoCall EXCEPT !.op = "fetchBatchStep", !.symbol = symbol, !.hist = hist,
                    !.exc = r.exc, !.count = r.count, !.symbols = batch.symbols,
                    !.overwrote = Overwrites(symbol, hist.df),
                    !.same = r.w.db.daily_prices = db.daily_prices,
                    !.success_count = batch.success_count,
                    !.fail_count = batch.fail_count]
       IN  /\ Apply(r.w)
           /\ IF r.exc = "none"
              THEN /\ batch' = [batch EXCEPT !.i = @ + 1, !.success_count = @ + 1]
                   /\ last' = d
              ELSE IF Caught(r.exc)
              THEN /\ batch' = [batch EXCEPT !.i = @ + 1, !.fail_count = @ + 1]
                   /\ last' = d
              ELSE /\ batch' = Idle
                   /\ last' = [d EXCEPT !.escaped = TRUE]
    /\ UNCHANGED <<now, cw>>

\* After the loop: the summary is printed and the call returns (None)
FetchBatchReturn ==
    /\ batch.op = "fetchBatch"
    /\ batch.i > Len(batch.symbols)
    /\ batch' = Idle
    /\ last' = [NoCall EXCEPT !.op = "fetchBatch", !.symbols = batch.symbols,
                   !.ret = None, !.success_count = batch.success_count,
                   !.fail_count = batch.fail_count]
    /\ UNCHANGED <<db, conn, now, cw>>

\* SELECT DISTINCT symbol FROM daily_prices, in the order `order` of the result
DistinctSymbols(view) == { r.symbol : r \in DOMAIN view.daily_prices }

Orders(S) == { o \in [1 .. Cardinality(S) -> S] : \A x \in S : \E i \in DOMAIN o : o[i] = x }

\* refetch_all_symbols_yahoo(symbols, period): entry, up to the loop.
\* given = FALSE is symbols=None: the list is read from daily_prices.
RefetchAllStart(given, list) ==
    /\ NoCallRunning
    /\ LET w1 == IF given THEN World ELSE Connect(World)      \* query() connects
       IN  /\ Apply(w1)
           /\ \E symbols \in (IF given THEN {list}
                              ELSE Orders(DistinctSymbols(w1.conn.view))) :
                /\ ~given => list = << >>
                /\ batch' = IF symbols = << >> THEN Idle      \* "No symbols to refetch"
                            ELSE [Idle EXCEPT !.op = "refetchAll", !.symbols = symbols,
                                     !.i = 1]
                /\ last' = [NoCall EXCEPT !.op = IF symbols = << >> THEN "refetchAll"
                                                 ELSE "refetchAllStart",
                               !.symbols = symbols, !.ret = None,
                               !.defaulted = ~given]
    /\ UNCHANGED <<now, cw>>

\* One iteration of the loop of refetch_all_symbols_yahoo: clear, then fetch.
\* clearExc is what clear_symbol_prices leaves with ("OperationalError" when
\* the store cannot be written).
RefetchAllStep(clearExc, hist) ==
    /\ batch.op = "refetchAll"
    /\ batch.i <= Len(batch.symbols)
    /\ LogHasRoom
    /\ LET symbol == batch.symbols[batch.i]
           w1 == IF clearExc = "none" THEN clear_symbol_prices(World, symbol)
                 ELSE Connect(World)
           r  == IF clearExc = "none" THEN fetch_prices_yahoo(w1, symbol, hist, now)
                 ELSE [w |-> w1, exc |-> clearExc, count |-> 0]
           d  == [NoCall EXCEPT !.op = "refetchAllStep", !.symbol = symbol, !.hist = hist,
                     !.exc = r.exc, !.count = r.count, !.symbols = batch.symbols,
                     !.overwrote = Stale(symbol, hist.df),
                     !.same = r.w.db.daily_prices = db.daily_prices,
                     !.success_count = batch.success_count,
                     !.fail_count = batch.fail_count]
       IN  /\ clearExc # "none" => hist = NoHistory
           /\ Apply(r.w)
           /\ IF r.exc = "none"
              THEN /\ batch' = [batch EXCEPT !.i = @ + 1, !.success_count = @ + 1]
                   /\ last' = d
              ELSE IF Caught(r.exc)
              THEN /\ batch' = [batch EXCEPT !.i = @ + 1, !.fail_count = @ + 1]
                   /\ last' = d
              ELSE /\ batch' = Idle
                   /\ last' = [d EXCEPT !.escaped = TRUE]
    /\ UNCHANGED <<now, cw>>

\* After the loop: the summary is printed and the call returns (None)
RefetchAllReturn ==
    /\ batch.op = "refetchAll"
    /\ batch.i > Len(batch.symbols)
    /\ batch' = Idle
    /\ last' = [NoCall EXCEPT !.op = "refetchAll", !.symbols = batch.symbols,
                   !.ret = None, !.success_count = batch.success_count,
                   !.fail_count = batch.fail_count]
    /\ UNCHANGED <<db, conn, now, cw>>

-----------------------------------------------------------------------------
(* The price ingester on its own *)

\* FinancePipeline.__init__: no connection yet; the store as init_schema left it
Init ==
    /\ db = EmptyStore(FALSE)
    /\ conn = [open |-> FALSE, intx |-> FALSE, view |-> db, id |-> 0]
    /\ now = [h |-> StartHour, us |-> 0, n |-> 0]
    /\ batch = Idle
    /\ cw = CwIdle
    /\ last = NoCall

Next ==
    \/ \E symbol \in Symbols, hist \in Histories : FetchOne(symbol, hist)
    \/ \E symbol \in Symbols : ClearSymbol(symbol)
    \/ \E symbols \in SymbolLists : FetchBatchStart(symbols)
    \/ \E hist \in Histories : FetchBatchStep(hist)
    \/ FetchBatchReturn
    \/ \E given \in BOOLEAN, list \in SymbolLists : RefetchAllStart(given, list)
    \/ \E clearExc \in {"none", "OperationalError"}, hist \in Histories :
          RefetchAllStep(clearExc, hist)
    \/ RefetchAllReturn

Spec == Init /\ [][Next]_vars

-----------------------------------------------------------------------------
(* Properties of the price ingester *)

\* The rows of the committed daily_prices table stored for (symbol, date)
RowsAt(store, symbol, date) ==
    { r \in DOMAIN store.daily_prices : PriceKey(r) = << symbol, date >> }

\* The committed table holds exactly the row of df[i], once, at its key
Stored(store, symbol, row) ==
    /\ RowsAt(store, symbol, StrfTime(row.Date)) = { PriceRow(symbol, row) }
    /\ CopiesIn(PriceRow(symbol, row), store.daily_prices) = 1

\* The committed table holds the row of df[i]
Written(store, symbol, row) == BagIn(PriceRow(symbol, row), store.daily_prices)

\* C1: after any sequence of fetchOne, fetchBatch, refetchAll and clearSymbol
\* calls the store holds at most one PriceBar row for every (symbol, date).
C1_Uniqueness ==
    \A r1 \in DOMAIN db.daily_prices :
        /\ db.daily_prices[r1] = 1
        /\ \A r2 \in DOMAIN db.daily_prices : PriceKey(r1) = PriceKey(r2) => r1 = r2

C1_Witness ==
    /\ last.op \in {"fetchOne", "fetchBatchStep"}
    /\ last.exc = "none"
    /\ last.overwrote
    /\ BagCardinality(db.daily_prices) >= 2

\* C2: when fetchOne ingests a bar for a (symbol, date) that already has a row,
\* every value stored for that key afterwards is the one of this ingestion.
C2_LastWriteWins ==
    (last.op = "fetchOne" /\ last.exc = "none")
        => \A i \in 1 .. Len(last.hist.df) : Stored(db, last.symbol, last.hist.df[i])

C2_Witness ==
    /\ last.op = "fetchOne"
    /\ last.exc = "none"
    /\ last.overwrote

\* C3: ingesting the same snapshot for a symbol twice in a row with fetchOne
\* leaves daily_prices (row count and values) as the first ingestion left it.
C3_Idempotent ==
    (last.op = "fetchOne" /\ last.exc = "none" /\ last.repeat) => last.same

C3_Witness ==
    /\ last.op = "fetchOne"
    /\ last.exc = "none"
    /\ last.repeat
    /\ BagCardinality(db.daily_prices) >= 2

\* C4: in fetchBatch a symbol whose fetch succeeds has its rows written and
\* counts as one success; a symbol whose fetch fails counts as one failure and
\* changes no price row; either way the loop goes on to the next symbol.
\* (last.success_count and last.fail_count are the counters before the step.)
C4_BatchIsolation ==
    last.op = "fetchBatchStep"
        => /\ batch.op = "fetchBatch"
           /\ batch.i = batch.success_count + batch.fail_count + 1
           /\ last.exc = "none" =>
                 /\ \A i \in 1 .. Len(last.hist.df) :
                       Written(db, last.symbol, last.hist.df[i])
                 /\ batch.success_count = last.success_count + 1
                 /\ batch.fail_count = last.fail_count
           /\ last.exc # "none" =>
                 /\ last.same
                 /\ batch.success_count = last.success_count
                 /\ batch.fail_count = last.fail_count + 1

\* A success after a failure, in a list that has another success
C4_Witness ==
    /\ last.op = "fetchBatchStep"
    /\ last.exc = "none"
    /\ batch.fail_count >= 1
    /\ batch.success_count >= 2

\* C5: no exception leaves fetchBatch or refetchAll because one symbol failed:
\* every symbol attempted so far is counted, and the call returns after the
\* last symbol with all of them counted.
C5_NoEscape ==
    /\ ~last.escaped
    /\ batch.op # "idle" =>
          /\ batch.i <= Len(batch.symbols) + 1
          /\ batch.success_count + batch.fail_count = batch.i - 1
    /\ last.op \in {"fetchBatch", "refetchAll"} =>
          last.success_count + last.fail_count = Len(last.symbols)

C5_Witness ==
    /\ last.op = "refetchAll"
    /\ last.fail_count >= 1
    /\ last.success_count >= 1

-----------------------------------------------------------------------------
(* WatchlistManager *)

WatchlistNames == {"tech", "fin"}

MemberLists == UNION { [1 .. n -> Symbols] : n \in 0 .. MaxMembers }

SeqToBag(q) ==
    LET S == { q[i] : i \in DOMAIN q }
    IN  [x \in S |-> Cardinality({ i \in DOMAIN q : q[i] = x })]

\* What a reader on a connection of its own gets from get(name): the
\* committed rows only
Observed(name) == SelectWatchlist(db, name)

\* create_watchlist(name, symbols): conn = self.connect()
CreateWatchlistBegin(name, symbols) ==
    /\ NoCallRunning
    /\ Len(db.watchlist_symbols) + Len(symbols) <= MaxMemberRows
    /\ NextRowId([db EXCEPT !.watchlists = { x \in @ : x.name # name }]) <= MaxId
    /\ Apply(Connect(World))
    /\ cw' = [CwIdle EXCEPT !.pc = "delete", !.name = name, !.symbols = symbols,
                 !.old = Observed(name)]
    /\ last' = [NoCall EXCEPT !.op = "createOrReplaceBegin", !.name = name,
                   !.symbols = symbols]
    /\ UNCHANGED <<now, batch>>

\* cursor.execute("DELETE FROM watchlists WHERE name = ?", [name])
CreateWatchlistDelete ==
    /\ cw.pc = "delete"
    /\ Apply(DeleteWatchlistHeader(World, cw.name))
    /\ cw' = [cw EXCEPT !.pc = "header"]
    /\ UNCHANGED <<now, batch, last>>

\* cursor.execute("INSERT INTO watchlists (name) VALUES (?)"); cursor.lastrowid
CreateWatchlistHeader ==
    /\ cw.pc = "header"
    /\ Apply(InsertWatchlist(World, cw.name))
    /\ cw' = [cw EXCEPT !.pc = "members", !.i = 1,
                 !.watchlist_id = NextRowId(conn.view)]
    /\ UNCHANGED <<now, batch, last>>

\* for symbol in symbols: cursor.execute("INSERT INTO watchlist_symbols ...")
CreateWatchlistMember ==
    /\ cw.pc = "members"
    /\ cw.i <= Len(cw.symbols)
    /\ Apply(InsertWatchlistSymbol(World, cw.watchlist_id, cw.symbols[cw.i]))
    /\ cw' = [cw EXCEPT !.i = @ + 1]
    /\ UNCHANGED <<now, batch, last>>

\* conn.commit()
CreateWatchlistCommit ==
    /\ cw.pc = "members"
    /\ cw.i > Len(cw.symbols)
    /\ Apply(Commit(World))
    /\ cw' = [cw EXCEPT !.pc = "return"]
    /\ UNCHANGED <<now, batch, last>>

\* the call returns
CreateWatchlistReturn ==
    /\ cw.pc = "return"
    /\ cw' = CwIdle
    /\ last' = [NoCall EXCEPT !.op = "createOrReplace", !.name = cw.name,
                   !.symbols = cw.symbols, !.overwrote = cw.old # << >>]
    /\ UNCHANGED <<db, conn, now, batch>>

\* get_watchlist(name): query() connects, then the SELECT
GetWatchlist(name) ==
    /\ NoCallRunning
    /\ LET w1 == Connect(World)
       IN  /\ Apply(w1)
           /\ last' = [NoCall EXCEPT !.op = "get", !.name = name,
                          !.symbols = SelectWatchlist(w1.conn.view, name)]
    /\ UNCHANGED <<now, batch, cw>>

\* The dashboard's Delete Watchlist button:
\*   pipeline.query("DELETE FROM watchlists WHERE name = ?", [selected])
\* query() connects and hands the statement to pandas.read_sql_query, which
\* executes it and then fails on the result set the statement does not have;
\* nothing commits the transaction the statement opened.
DeleteWatchlist(name) ==
    /\ NoCallRunning
    /\ Apply(DeleteWatchlistHeader(Connect(World), name))
    /\ last' = [NoCall EXCEPT !.op = "delete", !.name = name, !.exc = "TypeError"]
    /\ UNCHANGED <<now, batch, cw>>

InitWatch ==
    /\ \E a \in BOOLEAN : db = EmptyStore(a)
    /\ conn = [open |-> FALSE, intx |-> FALSE, view |-> db, id |-> 0]
    /\ now = [h |-> StartHour, us |-> 0, n |-> 0]
    /\ batch = Idle
    /\ cw = CwIdle
    /\ last = NoCall

NextWatch ==
    \/ \E name \in WatchlistNames, symbols \in MemberLists :
          CreateWatchlistBegin(name, symbols)
    \/ CreateWatchlistDelete
    \/ CreateWatchlistHeader
    \/ CreateWatchlistMember
    \/ CreateWatchlistCommit
    \/ CreateWatchlistReturn
    \/ \E name \in WatchlistNames : GetWatchlist(name)
    \/ \E name \in WatchlistNames : DeleteWatchlist(name)

SpecWatch == InitWatch /\ [][NextWatch]_vars

\* C6: after createOrReplace(name, S) returns, get(name) gives exactly the
\* entries of S, with their multiplicities.
C6_ReplaceExact ==
    last.op = "createOrReplace"
        => SeqToBag(Observed(last.name)) = SeqToBag(last.symbols)

\* C7: in every state after createOrReplace has returned, each
\* watchlist_symbols row refers to a watchlists header that exists.
C7_NoOrphans ==
    cw.pc = "idle"
        => \A i \in 1 .. Len(db.watchlist_symbols) :
              \E x \in db.watchlists : x.id = db.watchlist_symbols[i].watchlist_id

\* C8: while createOrReplace replaces a non-empty watchlist by a non-empty
\* list, a reader sees the complete old membership or the complete new one.
C8_AtomicReplace ==
    (cw.pc # "idle" /\ cw.old # << >> /\ cw.symbols # << >>)
        => \/ SeqToBag(Observed(cw.name)) = SeqToBag(cw.old)
           \/ SeqToBag(Observed(cw.name)) = SeqToBag(cw.symbols)

-----------------------------------------------------------------------------
(* ApiUsageTracker *)

\* Time passes between two calls
Tick(hours, fraction) ==
    /\ NoCallRunning
    /\ now.n < MaxTicks
    /\ now' = [h |-> now.h + hours, us |-> fraction, n |-> now.n + 1]
    /\ last' = [NoCall EXCEPT !.op = "tick"]
    /\ UNCHANGED <<db, conn, batch, cw>>

\* record(source, endpoint, context): log_api_call
Record(source, endpoint, symbol) ==
    /\ NoCallRunning
    /\ LogHasRoom
    /\ Apply(log_api_call(World, source, endpoint, symbol, now))
    /\ last' = [NoCall EXCEPT !.op = "record", !.source = source, !.symbol = symbol,
                   !.name = endpoint]
    /\ UNCHANGED <<now, batch, cw>>

\* usage(source, windowHours): get_api_usage
Usage(source, hours) ==
    /\ NoCallRunning
    /\ LET r == get_api_usage(World, source, hours, now)
       IN  /\ Apply(r.w)
           /\ last' = [NoCall EXCEPT !.op = "usage", !.source = source, !.hours = hours,
                          !.ret = r.ret]
    /\ UNCHANGED <<now, batch, cw>>

NextUsage ==
    \/ \E hours \in TickHours, fraction \in Fractions : Tick(hours, fraction)
    \/ \E source \in Sources : Record(source, "TIME_SERIES_DAILY", "A")
    \/ \E source \in Sources, hours \in UsageWindows : Usage(source, hours)

SpecUsage == Init /\ [][NextUsage]_vars

\* The log under the calls that write to the store
NextLog ==
    \/ \E source \in Sources, symbol \in Symbols :
          Record(source, "TIME_SERIES_DAILY", symbol)
    \/ \E source \in Sources, hours \in UsageWindows : Usage(source, hours)
    \/ \E symbol \in Symbols, hist \in Histories : FetchOne(symbol, hist)
    \/ \E symbol \in Symbols : ClearSymbol(symbol)

SpecLog == Init /\ [][NextLog]_vars

\* The clock reading a stored timestamp was printed from
ParseIso(str) ==
    [ h  |-> (str[1] - 48) * 100 + (str[2] - 48) * 10 + (str[3] - 48),
      us |-> IF Len(str) > 3 THEN str[5] - 48 ELSE 0 ]

\* a is at or before b
TimeLeq(a, b) == a.h < b.h \/ (a.h = b.h /\ a.us <= b.us)

\* The records of `source` made at or after `since`
RecordsSince(source, since) ==
    { i \in 1 .. Len(db.api_calls) :
        /\ db.api_calls[i].source = source
        /\ TimeLeq(since, ParseIso(db.api_calls[i].timestamp)) }

\* C9: usage(source, windowHours) is the number of records of that source
\* whose time is at or after now minus windowHours.
C9_UsageWindow ==
    last.op = "usage"
        => last.ret = Cardinality(RecordsSince(last.source, MinusHours(now, last.hours)))

\* Calls at t-30h, t-10h and t-1h, then usage(X, 24) = 2
C9_Witness ==
    /\ last.op = "usage"
    /\ last.hours = 24
    /\ last.ret = 2
    /\ Len(db.api_calls) = 3
    /\ \A i \in 1 .. 3 : db.api_calls[i].source = last.source
    /\ db.api_calls[1].timestamp = IsoFormat(MinusHours(now, 30))
    /\ db.api_calls[2].timestamp = IsoFormat(MinusHours(now, 10))
    /\ db.api_calls[3].timestamp = IsoFormat(MinusHours(now, 1))

IsPrefix(p, q) == Len(p) <= Len(q) /\ \A i \in 1 .. Len(p) : p[i] = q[i]

\* C10: no step removes or changes a record of the log, and a record(source,
\* endpoint, context) call appends exactly one record, stamped with the time
\* of the call.
C10_AppendOnly ==
    [][ /\ IsPrefix(db.api_calls, db'.api_calls)
        /\ last'.op = "record" =>
              db'.api_calls = Append(db.api_calls,
                  [source |-> last'.source, endpoint |-> last'.name,
                   symbol |-> last'.symbol, timestamp |-> IsoFormat(now)]) ]_vars

C10_Witness ==
    /\ last.op = "record"
    /\ Len(db.api_calls) >= 2
    /\ db.api_calls[1].source = last.source

-----------------------------------------------------------------------------
(* ConnectionManager and QueryGateway *)

\* The connection objects that are open in FinancePipeline.connect when
\* sqlite3.connect has returned and self.conn is being assigned
OpenAtConnect(w) == ({w.conn.id} \ {0}) \cup {Connect(w).conn.id}

\* pipeline.connect(), called from outside the class
ConnectCall ==
    /\ NoCallRunning
    /\ LET w1 == Connect(World)
       IN  /\ Apply(w1)
           /\ last' = [NoCall EXCEPT !.op = "connect", !.ret = w1.conn.id,
                          !.repeat = conn.open,
                          !.same = w1.conn.id = conn.id,
                          !.count = Cardinality(OpenAtConnect(World))]
    /\ UNCHANGED <<now, batch, cw>>

\* pipeline.disconnect() / pipeline.close()
DisconnectCall ==
    /\ NoCallRunning
    /\ Apply(Disconnect(World))
    /\ last' = [NoCall EXCEPT !.op = "disconnect"]
    /\ UNCHANGED <<now, batch, cw>>

\* The rows of daily_prices a view holds for a symbol
RowsOf(view, symbol) == { r \in DOMAIN view.daily_prices : r.symbol = symbol }

\* pipeline.query("DELETE FROM daily_prices WHERE symbol = ?", [symbol]):
\* query() connects and hands the statement to pandas.read_sql_query, which
\* executes it on self.conn and then raises TypeError on the result set a
\* DELETE does not have.  Nothing commits the statement's transaction.
ExecuteDeletePrices(symbol) ==
    /\ NoCallRunning
    /\ Apply(DeletePrices(Connect(World), symbol))
    /\ last' = [NoCall EXCEPT !.op = "execute", !.symbol = symbol, !.exc = "TypeError",
                   !.overwrote = RowsOf(db, symbol) # {}]
    /\ UNCHANGED <<now, batch, cw>>

\* pipeline.query("SELECT COUNT(*) FROM daily_prices WHERE symbol = ?", [symbol])
ExecuteCountPrices(symbol) ==
    /\ NoCallRunning
    /\ LET w1 == Connect(World)
       IN  /\ Apply(w1)
           /\ last' = [NoCall EXCEPT !.op = "count", !.symbol = symbol,
                          !.ret = Cardinality(RowsOf(w1.conn.view, symbol)),
                          !.repeat = last.op = "execute" /\ last.symbol = symbol]
    /\ UNCHANGED <<now, batch, cw>>

NextGateway ==
    \/ ConnectCall
    \/ DisconnectCall
    \/ \E symbol \in Symbols, hist \in Histories : FetchOne(symbol, hist)
    \/ \E symbol \in Symbols : ExecuteDeletePrices(symbol)
    \/ \E symbol \in Symbols : ExecuteCountPrices(symbol)

SpecGateway == Init /\ [][NextGateway]_vars

\* C11: a connect() call made while a connection is open returns that same
\* connection and opens no new one: at most one connection is open at a time.
C11_SingleConnection ==
    last.op = "connect"
        => /\ last.repeat => last.same
           /\ last.count <= 1

\* C12: a DELETE run through query() takes effect: the next operation on the
\* pipeline that counts the rows of the symbol finds none.
C12_WriteTakesEffect ==
    (last.op = "count" /\ last.repeat) => last.ret = 0

-----------------------------------------------------------------------------
(* delete(name): the dashboard's Delete Watchlist button *)

\* What the next operation on the pipeline reads: it connects first
NextView == Connect(World).conn.view

\* C13: after delete(name) the next operation finds no header called name,
\* get(name) is empty and no watchlist_symbols row of the deleted header is left.
C13_DeleteRemoves ==
    last.op = "delete"
        => LET ids == { x.id : x \in { y \in db.watchlists : y.name = last.name } }
           IN  /\ \A x \in NextView.watchlists : x.name # last.name
               /\ SelectWatchlist(NextView, last.name) = << >>
               /\ \A i \in 1 .. Len(NextView.watchlist_symbols) :
                      NextView.watchlist_symbols[i].watchlist_id \notin ids

-----------------------------------------------------------------------------
(* clearHistory: the dashboard's Clear API Call History button and the      *)
(* cleanup step of migrate_to_yahoo.py                                      *)

\* DELETE FROM api_calls
DeleteApiCalls(w) ==
    Execute(w, [w.conn.view EXCEPT !.api_calls = << >>])

\* DELETE FROM api_calls WHERE source = ?
DeleteApiCallsOf(w, source) ==
    LET Other(r) == r.source # source
    IN  Execute(w, [w.conn.view EXCEPT !.api_calls = SelectSeq(@, Other)])

\* pipeline.query("DELETE FROM api_calls"): executed by read_sql_query on the
\* connection query() opened, never committed; TypeError leaves the call
ClearHistory ==
    /\ NoCallRunning
    /\ Apply(DeleteApiCalls(Connect(World)))
    /\ last' = [NoCall EXCEPT !.op = "clearHistory", !.exc = "TypeError"]
    /\ UNCHANGED <<now, batch, cw>>

\* pipeline.query("DELETE FROM api_calls WHERE source = 'alpha_vantage'")
ClearHistoryOf(source) ==
    /\ NoCallRunning
    /\ Apply(DeleteApiCallsOf(Connect(World), source))
    /\ last' = [NoCall EXCEPT !.op = "clearHistory", !.source = source,
                   !.exc = "TypeError"]
    /\ UNCHANGED <<now, batch, cw>>

NextHistory ==
    \/ \E source \in Sources, symbol \in Symbols :
          Record(source, "TIME_SERIES_DAILY", symbol)
    \/ \E source \in Sources, hours \in UsageWindows : Usage(source, hours)
    \/ ClearHistory
    \/ ClearHistoryOf(ALPHA)

SpecHistory == Init /\ [][NextHistory]_vars

\* C14: after clearHistory(source) usage(source, w) is 0 for every window w
\* and the records of the other sources are as they were; after clearHistory()
\* no record is left.
C14_ClearHistory ==
    last.op = "clearHistory"
        => IF last.source = ""
           THEN NextView.api_calls = << >>
           ELSE LET Other(r) == r.source # last.source
                IN  /\ \A hours \in UsageWindows :
                          get_api_usage(World, last.source, hours, now).ret = 0
                    /\ SelectSeq(NextView.api_calls, Other) = SelectSeq(db.api_calls, Other)

-----------------------------------------------------------------------------
(* Outcomes of fetchOne and fetchBatch *)

\* SELECT COUNT(*) FROM daily_prices WHERE symbol = ?
RowCount(view, symbol) ==
    BagCardinality([r \in RowsOf(view, symbol) |-> view.daily_prices[r]])

\* C15: a fetchOne that succeeds on a store holding no row of the symbol,
\* the source returning n rows, leaves exactly n rows of the symbol.
C15_RowCount ==
    [][ (/\ last'.op = "fetchOne"
         /\ last'.exc = "none"
         /\ RowCount(db, last'.symbol) = 0)
            => RowCount(db', last'.symbol) = Len(last'.hist.df) ]_vars

\* The first call that wrote to the store: a fetch of MaxDay rows
C15_Witness ==
    /\ last.op = "fetchOne"
    /\ last.exc = "none"
    /\ Len(last.hist.df) = MaxDay
    /\ Len(db.api_calls) = 1
    /\ RowCount(db, last.symbol) = MaxDay

\* C16: a successful fetchOne returns the number of rows it upserted.
C16_ReturnsRowCount ==
    (last.op = "fetchOne" /\ last.exc = "none") => last.ret = last.count

\* C17: fetchBatch returns an aggregate of the success and failure counts,
\* which sum to the number of symbols of the list.
C17_ReturnsAggregate ==
    last.op = "fetchBatch"
        => /\ last.ret # None
           /\ last.success_count + last.fail_count = Len(last.symbols)

\* C18: fetchOne fails, and never succeeds, when the source returns no rows;
\* it then writes no row and logs no call.
C18_EmptyFails ==
    (last.op = "fetchOne" /\ last.hist = [exc |-> "none", df |-> << >>])
        => /\ last.exc = "Exception"
           /\ last.count = 0
           /\ last.same

C18_Witness ==
    /\ last.op = "fetchOne"
    /\ last.hist = [exc |-> "none", df |-> << >>]
    /\ last.exc = "Exception"
    /\ RowCount(db, last.symbol) >= 1

\* C19: a successful fetchOne appends exactly one api_calls row, tagged with
\* the price source and carrying the symbol, however many rows it writes.
C19_OneLogRecord ==
    [][ (last'.op = "fetchOne" /\ last'.exc = "none")
            => db'.api_calls = Append(db.api_calls,
                   [source |-> YAHOO, endpoint |-> "history",
                    symbol |-> last'.symbol, timestamp |-> IsoFormat(now)]) ]_vars

C19_Witness ==
    /\ last.op = "fetchOne"
    /\ last.exc = "none"
    /\ Len(last.hist.df) = MaxDay
    /\ Len(db.api_calls) >= 2
    /\ db.api_calls[Len(db.api_calls)].symbol = last.symbol
    /\ db.api_calls[Len(db.api_calls)].source = YAHOO

-----------------------------------------------------------------------------
(* MacroSeriesIngester *)

Indicators == {"GDP", "UNRATE"}

\* The text "." in a value cell: FRED's CSV prints it where an observation is
\* missing, and pandas.read_csv keeps it as text
Period == 0 - 2

\* The value cells of the parsed CSV: numbers, nan (an empty cell), "."
Cells == {3, 4, NaN, Period}

\* The frames pd.read_csv returns: a date column and a value column
Series ==
    { df \in UNION { [1 .. n -> [date : Days, value : Cells]] : n \in 0 .. MaxDay } :
        \A i \in 1 .. Len(df) - 1 : df[i].date < df[i + 1].date }

\* What requests.get / raise_for_status do: raise, or hand over the CSV
Responses ==
    { [exc |-> "HTTPError", df |-> << >>] } \cup
    { [exc |-> "none", df |-> df] : df \in Series }

\* pd.notna(row.iloc[1])
PdNotna(x) == x # NaN

\* float(row.iloc[1]) raises ValueError on text that is no number
FloatRaises(x) == x = Period

\* macro_data ... UNIQUE(indicator, date)
MacroKey(r) == << r.indicator, r.date >>

\* INSERT OR REPLACE INTO macro_data (indicator, date, value, source)
InsertOrReplaceMacro(w, row) ==
    LET old  == w.conn.view.macro_data
        keep == { r \in DOMAIN old : MacroKey(r) # MacroKey(row) }
        kept == [r \in keep |-> old[r]]
    IN  Execute(w, [w.conn.view EXCEPT !.macro_data = kept (+) SetToBag({row})])

\* The row bound to the INSERT statement of fetch_fred
MacroRow(indicator, r) ==
    [indicator |-> indicator, date |-> r.date, value |-> r.value, source |-> "FRED"]

RECURSIVE InsertMacroRows(_, _, _, _, _)
\* for _, row in df.iterrows(): if pd.notna(...): cursor.execute(...); count += 1
\* Rows i.. of df; stops at the first row whose float() raises.
InsertMacroRows(w, indicator, df, i, count) ==
    IF i > Len(df) THEN [w |-> w, exc |-> "none", count |-> count]
    ELSE IF ~PdNotna(df[i].value)
         THEN InsertMacroRows(w, indicator, df, i + 1, count)
         ELSE IF FloatRaises(df[i].value)
              THEN [w |-> w, exc |-> "ValueError", count |-> count]
              ELSE InsertMacroRows(InsertOrReplaceMacro(w, MacroRow(indicator, df[i])),
                                   indicator, df, i + 1, count + 1)

\* FinancePipeline.fetch_fred(indicator) when the request does `resp`
fetch_fred(w, indicator, resp) ==
    IF resp.exc # "none" THEN [w |-> w, exc |-> resp.exc, count |-> 0]
    ELSE LET ins == InsertMacroRows(Connect(w), indicator, resp.df, 1, 0)
         IN  IF ins.exc # "none" THEN ins
             ELSE [w |-> Commit(ins.w), exc |-> "none", count |-> ins.count]

\* fetchIndicator(code): a call of fetch_fred
FetchIndicator(indicator, resp) ==
    /\ NoCallRunning
    /\ LET r == fetch_fred(World, indicator, resp)
       IN  /\ Apply(r.w)
           /\ last' = [NoCall EXCEPT !.op = "fetchIndicator", !.symbol = indicator,
                          !.hist = [exc |-> resp.exc, df |-> << >>],
                          !.series = resp.df, !.exc = r.exc, !.count = r.count]
    /\ UNCHANGED <<now, batch, cw>>

\* SELECT COUNT(*) FROM macro_data WHERE indicator = ?
CountMacro(indicator) ==
    /\ NoCallRunning
    /\ LET w1 == Connect(World)
       IN  /\ Apply(w1)
           /\ last' = [NoCall EXCEPT !.op = "countMacro", !.symbol = indicator,
                          !.ret = Cardinality({ r \in DOMAIN w1.conn.view.macro_data :
                                                   r.indicator = indicator })]
    /\ UNCHANGED <<now, batch, cw>>

NextFred ==
    \/ \E indicator \in Indicators, resp \in Responses : FetchIndicator(indicator, resp)
    \/ \E indicator \in Indicators : CountMacro(indicator)

SpecFred == Init /\ [][NextFred]_vars

\* The macro_data rows stored for (indicator, date)
MacroAt(store, indicator, date) ==
    { r \in DOMAIN store.macro_data : MacroKey(r) = << indicator, date >> }

\* C20: fetchIndicator stores exactly the source rows whose value is present
\* and numeric; a row whose value is missing or not a number is skipped and
\* creates no row, and the other rows of the series are still stored.
C20_SkipsBadValues ==
    [][ (last'.op = "fetchIndicator" /\ last'.hist.exc = "none")
            => \A i \in 1 .. Len(last'.series) :
                  LET row == last'.series[i]
                  IN  IF row.value \in {NaN, Period}
                      THEN MacroAt(db', last'.symbol, row.date)
                              = MacroAt(db, last'.symbol, row.date)
                      ELSE MacroAt(db', last'.symbol, row.date)
                              = { MacroRow(last'.symbol, row) } ]_vars

-----------------------------------------------------------------------------
(* refetchAll *)

\* The symbols of a list
Range(q) == { q[i] : i \in DOMAIN q }

\* C21: refetchAll without a list processes exactly the distinct symbols that
\* have rows when it is called, each once; after the re-fetch of a symbol
\* succeeds its rows are exactly the rows of the new fetch.
C21_RefetchReplaces ==
    [][ /\ (last'.op \in {"refetchAllStart", "refetchAll"} /\ last'.defaulted)
              => /\ Range(last'.symbols) = DistinctSymbols(db)
                 /\ Len(last'.symbols) = Cardinality(DistinctSymbols(db))
        /\ (last'.op = "refetchAllStep" /\ last'.exc = "none")
              => /\ RowsOf(db', last'.symbol)
                       = { PriceRow(last'.symbol, last'.hist.df[i]) :
                              i \in 1 .. Len(last'.hist.df) }
                 /\ RowCount(db', last'.symbol) = Len(last'.hist.df) ]_vars

\* The second symbol of a list is re-fetched and rows it had are gone
C21_Witness ==
    /\ last.op = "refetchAllStep"
    /\ last.exc = "none"
    /\ last.overwrote
    /\ batch.i = 3
    /\ RowCount(db, last.symbol) = Len(last.hist.df)

C29_EmptyLeavesStore ==
    [][ (last'.op = "fetchOne" /\ last'.hist = [exc |-> "none", df |-> << >>])
            => /\ last'.exc # "none"
               /\ db' = db ]_vars

C29_Witness ==
    /\ last.op = "fetchOne"
    /\ last.hist = [exc |-> "none", df |-> << >>]
    /\ last.exc # "none"
    /\ Len(db.api_calls) >= 1
    /\ RowCount(db, last.symbol) = MaxDay

-----------------------------------------------------------------------------
(* list() *)

\* C27: after any sequence of createOrReplace calls at most one watchlists
\* header exists for each name.
C27_OneHeaderPerName ==
    \A x \in db.watchlists : \A y \in db.watchlists : x.name = y.name => x = y

\* A watchlist has been replaced while another one exists
C27_Witness ==
    /\ last.op = "createOrReplace"
    /\ last.overwrote
    /\ Cardinality(db.watchlists) = 2

-----------------------------------------------------------------------------
(* SymbolCatalog *)

\* JSON null / Python None / SQL NULL in a text column
Null == "<null>"

\* The columns of symbols that load_symbols reads from an entry
Attributes ==
    {"name", "sector", "industry", "market_cap", "country", "exchange",
     "currency", "isin", "asset_class"}

\* Entries of the catalog file: a JSON object per symbol
Infos ==
    { [a \in {} |-> Null],
      [a \in {"name"} |-> "Apple Inc"],
      [a \in {"name", "sector", "asset_class"} |->
          IF a = "name" THEN "Apple" ELSE IF a = "sector" THEN "Technology" ELSE "etf"],
      [a \in {"name", "asset_class"} |-> IF a = "name" THEN "Apple" ELSE Null] }

\* The parsed catalog files: a JSON object keyed by symbol code
Catalogs == UNION { [S -> Infos] : S \in SUBSET Symbols }

\* info.get(key) and info.get(key, default)
Get(info, key, default) == IF key \in DOMAIN info THEN info[key] ELSE default

\* The row bound to the INSERT statement of load_symbols
SymbolRow(symbol, info) ==
    [ symbol      |-> symbol,
      name        |-> Get(info, "name", Null),
      sector      |-> Get(info, "sector", Null),
      industry    |-> Get(info, "industry", Null),
      market_cap  |-> Get(info, "market_cap", Null),
      country     |-> Get(info, "country", Null),
      exchange    |-> Get(info, "exchange", Null),
      currency    |-> Get(info, "currency", Null),
      isin        |-> Get(info, "isin", Null),
      asset_class |-> Get(info, "asset_class", "equity") ]

\* INSERT OR IGNORE INTO symbols: a row whose symbol is taken is not inserted
InsertOrIgnoreSymbol(w, row) ==
    IF \E r \in DOMAIN w.conn.view.symbols : r.symbol = row.symbol
    THEN Execute(w, w.conn.view)
    ELSE Execute(w, [w.conn.view EXCEPT !.symbols = @ (+) SetToBag({row})])

\* INSERT OR REPLACE INTO symbols: the row that holds the symbol (the primary
\* key) is deleted, then the new row is inserted
InsertOrReplaceSymbol(w, row) ==
    LET old  == w.conn.view.symbols
        keep == { r \in DOMAIN old : r.symbol # row.symbol }
        kept == [r \in keep |-> old[r]]
    IN  Execute(w, [w.conn.view EXCEPT !.symbols = kept (+) SetToBag({row})])

RECURSIVE InsertSymbols(_, _, _)
\* for symbol, info in data.items(): cursor.execute(INSERT OR REPLACE ...)
\* todo: the keys of data not yet visited
InsertSymbols(w, data, todo) ==
    IF todo = {} THEN w
    ELSE LET symbol == CHOOSE c \in todo : TRUE
         IN  InsertSymbols(InsertOrReplaceSymbol(w, SymbolRow(symbol, data[symbol])),
                           data, todo \ {symbol})

\* load_symbols without its conn.commit()
LoadWithoutCommit(w, fileExc, data) ==
    IF fileExc # "none" THEN [w |-> w, exc |-> fileExc, count |-> 0]
    ELSE [w     |-> InsertSymbols(Connect(w), data, DOMAIN data),
          exc   |-> "none",
          count |-> Cardinality(DOMAIN data)]

\* FinancePipeline.load_symbols(json_path): fileExc is what open() / json.load
\* leave with, data the parsed file
load_symbols(w, fileExc, data) ==
    IF fileExc # "none" THEN [w |-> w, exc |-> fileExc, count |-> 0]
    ELSE [w     |-> Commit(InsertSymbols(Connect(w), data, DOMAIN data)),
          exc   |-> "none",
          count |-> Cardinality(DOMAIN data)]

\* The rows of symbols a view holds for a code
SymbolRowsOf(view, symbol) == { r \in DOMAIN view.symbols : r.symbol = symbol }

\* loadSymbols(catalogData)
LoadSymbols(fileExc, data) ==
    /\ NoCallRunning
    /\ fileExc # "none" => data = << >>
    /\ LET r == load_symbols(World, fileExc, data)
       IN  /\ Apply(r.w)
           /\ last' = [NoCall EXCEPT !.op = "loadSymbols", !.exc = r.exc,
                          !.count = r.count, !.data = data,
                          !.overwrote = \E c \in DOMAIN data :
                              \E x \in SymbolRowsOf(db, c) : x # SymbolRow(c, data[c])]
    /\ UNCHANGED <<now, batch, cw>>

\* SELECT COUNT(*) FROM symbols
CountSymbols ==
    /\ NoCallRunning
    /\ LET w1 == Connect(World)
       IN  /\ Apply(w1)
           /\ last' = [NoCall EXCEPT !.op = "countSymbols",
                          !.ret = BagCardinality(w1.conn.view.symbols)]
    /\ UNCHANGED <<now, batch, cw>>

NextCatalog ==
    \/ \E fileExc \in {"none", "FileNotFoundError"}, data \in Catalogs :
          LoadSymbols(fileExc, data)
    \/ CountSymbols

SpecCatalog == Init /\ [][NextCatalog]_vars

\* C23: after loadSymbols(catalogData) every code of catalogData has exactly
\* one row, holding the attributes given, null for each attribute absent and
\* "equity" for an absent asset class; the rows of other codes are unchanged.
C23_CatalogUpsert ==
    [][ (last'.op = "loadSymbols" /\ last'.exc = "none")
            => /\ \A c \in DOMAIN last'.data :
                     /\ Cardinality(SymbolRowsOf(db', c)) = 1
                     /\ \A r \in SymbolRowsOf(db', c) :
                           /\ db'.symbols[r] = 1
                           /\ \A a \in Attributes :
                                 r[a] = IF a \in DOMAIN last'.data[c] THEN last'.data[c][a]
                                        ELSE IF a = "asset_class" THEN "equity"
                                        ELSE Null
               /\ \A c \in Symbols \ DOMAIN last'.data :
                     /\ SymbolRowsOf(db', c) = SymbolRowsOf(db, c)
                     /\ \A r \in SymbolRowsOf(db, c) : db'.symbols[r] = db.symbols[r] ]_vars

\* A load of two codes that replaced a different row of one of them
C23_Witness ==
    /\ last.op = "loadSymbols"
    /\ last.exc = "none"
    /\ last.overwrote
    /\ DOMAIN last.data = Symbols
    /\ BagCardinality(db.symbols) = 2

-----------------------------------------------------------------------------
(* The whole store: every writer of the core on one pipeline object *)

\* ticker.history() failing, returning nothing, or returning one bar
StoreHistories == { h \in Histories : Len(h.df) <= 1 /\ \A i \in DOMAIN h.df :
                       h.df[i].Date = 1 /\ h.df[i].bar.Volume = 10 }

\* The FRED answer failing, or carrying one observation
StoreResponses == { r \in Responses : Len(r.df) <= 1 /\ \A i \in DOMAIN r.df :
                       r.df[i].date = 1 /\ r.df[i].value \in {3, Period} }

\* One catalog file: both codes, one with every attribute absent
StoreCatalogs == { d \in Catalogs : DOMAIN d = Symbols /\ d["A"] = d["B"]
                                      /\ DOMAIN d["A"] \in {{}, {"name"}} }

NextStore ==
    \/ \E symbol \in Symbols, hist \in StoreHistories : FetchOne(symbol, hist)
    \/ \E symbol \in Symbols : ClearSymbol(symbol)
    \/ Record(YAHOO, "history", "A")
    \/ \E resp \in StoreResponses : FetchIndicator("GDP", resp)
    \/ \E data \in StoreCatalogs : LoadSymbols("none", data)
    \/ \E symbols \in {<< >>, <<"A">>} : CreateWatchlistBegin("tech", symbols)
    \/ CreateWatchlistDelete
    \/ CreateWatchlistHeader
    \/ CreateWatchlistMember
    \/ CreateWatchlistCommit
    \/ CreateWatchlistReturn
    \/ ConnectCall
    \/ DisconnectCall

SpecStore == Init /\ [][NextStore]_vars

\* C22: clearSymbol(symbol) leaves no price row of the symbol, and leaves the
\* price rows of every other symbol and every other table as they were.
C22_ClearSymbolFrame ==
    [][ last'.op = "clearSymbol"
            => /\ \A r \in DOMAIN db'.daily_prices : r.symbol # last'.symbol
               /\ \A r \in DOMAIN db.daily_prices :
                     r.symbol # last'.symbol =>
                        /\ r \in DOMAIN db'.daily_prices
                        /\ db'.daily_prices[r] = db.daily_prices[r]
               /\ db'.symbols = db.symbols
               /\ db'.watchlists = db.watchlists
               /\ db'.watchlist_symbols = db.watchlist_symbols
               /\ db'.macro_data = db.macro_data
               /\ db'.api_calls = db.api_calls ]_vars

\* A clear that removed rows while the other symbol and every other table
\* held rows
C22_Witness ==
    /\ last.op = "clearSymbol"
    /\ last.overwrote
    /\ db.daily_prices # EmptyBag
    /\ db.symbols # EmptyBag
    /\ db.watchlists # {}
    /\ db.watchlist_symbols # << >>
    /\ db.macro_data # EmptyBag
    /\ db.api_calls # << >>

\* The operations the commit guarantee is stated for
CommittingOps ==
    {"fetchOne", "fetchIndicator", "loadSymbols", "createOrReplace", "clearSymbol", "record"}

\* C30: when one of the writing operations has returned normally nothing is
\* left uncommitted: the connection is outside a transaction, it sees what is
\* committed, and a disconnect() or a new connect() leaves the store as it is.
C30_ReturnedMeansCommitted ==
    (last.op \in CommittingOps /\ last.exc = "none")
        => /\ ~conn.intx
           /\ conn.view = db
           /\ Connect(World).conn.view = conn.view
           /\ Disconnect(World).db = db

\* A catalog load that returned with rows in every table
C30_Witness ==
    /\ last.op = "loadSymbols"
    /\ last.exc = "none"
    /\ conn.open
    /\ db.symbols # EmptyBag
    /\ db.daily_prices # EmptyBag
    /\ db.watchlist_symbols # << >>
    /\ db.macro_data # EmptyBag
    /\ db.api_calls # << >>

-----------------------------------------------------------------------------
(* ConfigLoader *)

\* File paths: a string cut where the text ".json" starts and ends, so that
\* every occurrence of ".json" in the string is one element
DefaultPath == <<"config/config", ".json">>
NestedPath  == <<"conf", ".json", ".d/config", ".json">>
ConfigPaths ==
    { DefaultPath, NestedPath, <<"config/config", ".yaml">>,
      <<"config/config", ".example", ".json">> }

RECURSIVE StrReplace(_)
\* config_path.replace('.json', '.example.json'): every occurrence is replaced
StrReplace(path) ==
    IF path = << >> THEN << >>
    ELSE (IF Head(path) = ".json" THEN <<".example", ".json">> ELSE <<Head(path)>>)
            \o StrReplace(Tail(path))

\* The example file that sits next to a path: the same directory and name,
\* with .example before the .json extension
CoLocated(path) ==
    IF path[Len(path)] = ".json"
    THEN SubSeq(path, 1, Len(path) - 1) \o <<".example", ".json">>
    ELSE path

\* The paths at which a file may exist
FilePaths ==
    { DefaultPath, CoLocated(DefaultPath), NestedPath, CoLocated(NestedPath),
      StrReplace(NestedPath) }

\* What a file holds: the JSON text of a configuration, or text that is no JSON
Contents == {"data/finance.db", "not json"}

\* The file systems: the files that exist, and what they hold
FileSystems == UNION { [S -> Contents] : S \in SUBSET FilePaths }

NoConfig == [database |-> [path |-> ""]]

\* FinancePipeline._load_config(config_path) on the file system fs: the path
\* it opened, the configuration it returned, the exception it left with
LoadConfigOf(fs, config_path) ==
    LET example_path == StrReplace(config_path)
        opened == IF config_path \in DOMAIN fs THEN config_path
                  ELSE IF example_path \in DOMAIN fs THEN example_path
                  ELSE << >>
    IN  IF opened = << >>
        THEN [exc |-> "FileNotFoundError", opened |-> << >>, config |-> NoConfig]
        ELSE IF fs[opened] = "not json"
        THEN [exc |-> "JSONDecodeError", opened |-> opened, config |-> NoConfig]
        ELSE [exc |-> "none", opened |-> opened,
              config |-> [database |-> [path |-> fs[opened]]]]

\* FinancePipeline(config_path): __init__ loads the configuration
LoadConfig(fs, config_path) ==
    /\ NoCallRunning
    /\ last' = [NoCall EXCEPT !.op = "loadConfig", !.path = config_path, !.files = fs,
                   !.loaded = LoadConfigOf(fs, config_path),
                   !.exc = LoadConfigOf(fs, config_path).exc]
    /\ UNCHANGED <<db, conn, now, batch, cw>>

NextConfig == \E fs \in FileSystems, config_path \in ConfigPaths : LoadConfig(fs, config_path)

SpecConfig == Init /\ [][NextConfig]_vars

\* C24: configuration loading opens the file at the given path whenever it
\* exists, opens the co-located example only when the given path does not
\* exist, and fails, loading nothing, when neither exists.
C24_ConfigFallback ==
    last.op = "loadConfig" =>
        /\ last.path \in DOMAIN last.files => last.loaded.opened = last.path
        /\ (last.loaded.opened = CoLocated(last.path) /\ CoLocated(last.path) # last.path)
               => last.path \notin DOMAIN last.files
        /\ (last.path \notin DOMAIN last.files /\ CoLocated(last.path) \notin DOMAIN last.files)
               => /\ last.exc = "FileNotFoundError"
                  /\ last.loaded.opened = << >>
                  /\ last.loaded.config = NoConfig

-----------------------------------------------------------------------------
(* The Alpha Vantage ingester of pipeline_OLD.py *)

\* if usage >= 25: the free tier's calls per day
AlphaDailyLimit == 25

\* What the request does: requests.get raises; the body is not JSON and
\* response.json() raises; the JSON holds 'Error Message', 'Note', neither of
\* them nor a series, or 'Time Series (Daily)' with its rows
AlphaResponses ==
    { [kind |-> k, df |-> << >>] :
        k \in {"ConnectionError", "JSONDecodeError", "Error Message", "Note", "empty"} }
    \cup { [kind |-> "series", df |-> df] :
              df \in { d \in DataFrames : Len(d) = 1 /\ d[1].Date = 1
                                             /\ d[1].bar.Volume = 10 } }

\* The row bound to the INSERT statement of fetch_prices_alpha
AlphaRow(symbol, r) == [PriceRow(symbol, r) EXCEPT !.source = ALPHA]

RECURSIVE InsertAlphaRows(_, _, _, _)
\* for date, values in time_series.items(): cursor.execute(INSERT OR REPLACE ...)
InsertAlphaRows(w, symbol, df, i) ==
    IF i > Len(df) THEN w
    ELSE InsertAlphaRows(InsertOrReplacePrice(w, AlphaRow(symbol, df[i])), symbol, df, i + 1)

\* FinancePipeline.fetch_prices_alpha(symbol) of pipeline_OLD.py, when the
\* configuration holds a key or not and the request does `resp`, at clock
\* reading t.  called: requests.get was invoked; reached: the source answered.
fetch_prices_alpha(w, symbol, hasKey, resp, t) ==
    IF ~hasKey
    THEN [w |-> w, exc |-> "ValueError", called |-> FALSE, reached |-> FALSE]
    ELSE LET usage  == get_api_usage(w, ALPHA, 24, t)
             logged == log_api_call(usage.w, ALPHA, "TIME_SERIES_DAILY", symbol, t)
         IN  IF usage.ret >= AlphaDailyLimit
             THEN [w |-> usage.w, exc |-> "Exception", called |-> FALSE, reached |-> FALSE]
             ELSE IF resp.kind = "ConnectionError"
             THEN [w |-> usage.w, exc |-> "ConnectionError", called |-> TRUE,
                   reached |-> FALSE]
             ELSE IF resp.kind = "JSONDecodeError"
             THEN [w |-> usage.w, exc |-> "JSONDecodeError", called |-> TRUE,
                   reached |-> TRUE]
             ELSE IF resp.kind # "series"
             THEN [w |-> logged, exc |-> "Exception", called |-> TRUE, reached |-> TRUE]
             ELSE [w |-> Commit(InsertAlphaRows(Connect(logged), symbol, resp.df, 1)),
                   exc |-> "none", called |-> TRUE, reached |-> TRUE]

\* fetchOne through the Alpha Vantage source
FetchAlpha(symbol, hasKey, resp) ==
    /\ NoCallRunning
    /\ ~hasKey => resp.kind = "Note"
    /\ LET r == fetch_prices_alpha(World, symbol, hasKey, resp, now)
       IN  /\ Apply(r.w)
           /\ last' = [NoCall EXCEPT !.op = "fetchAlpha", !.symbol = symbol,
                          !.exc = r.exc, !.called = r.called, !.reached = r.reached]
    /\ UNCHANGED <<now, batch, cw>>

\* Hours that pass between two Alpha Vantage calls
AlphaTickHours == {20}

\* Time passes between two Alpha Vantage calls
AlphaTick(hours) ==
    /\ NoCallRunning
    /\ now.n < MaxAlphaTicks
    /\ now' = [h |-> now.h + hours, us |-> 0, n |-> now.n + 1]
    /\ last' = [NoCall EXCEPT !.op = "tick"]
    /\ UNCHANGED <<db, conn, batch, cw>>

NextAlpha ==
    \/ \E hasKey \in BOOLEAN, resp \in AlphaResponses : FetchAlpha("A", hasKey, resp)
    \/ \E hours \in AlphaTickHours : AlphaTick(hours)

SpecAlpha == Init /\ [][NextAlpha]_vars

\* The alpha_vantage records of a log stamped from `from` to `to`
AlphaRecordsIn(log, from, to) ==
    { i \in 1 .. Len(log) :
        /\ log[i].source = ALPHA
        /\ TimeLeq(from, ParseIso(log[i].timestamp))
        /\ TimeLeq(ParseIso(log[i].timestamp), to) }

\* The clock readings at which a trailing window is looked at
WindowEnds(log, t) == { ParseIso(log[i].timestamp) : i \in 1 .. Len(log) } \cup {t}

\* C26: with 25 or more alpha_vantage records in the trailing 24 hours the
\* fetch does not call the source, fails (with the rate-limit error, or before
\* it for a missing key) and writes nothing; every call that
\* reaches the source appends one alpha_vantage record; the alpha_vantage
\* records of any trailing 24 hours are never more than 25.
C26_AlphaQuota ==
    [][ last'.op = "fetchAlpha"
            => /\ Cardinality(AlphaRecordsIn(db.api_calls, MinusHours(now, 24), now))
                      >= AlphaDailyLimit
                      => /\ ~last'.called
                         /\ last'.exc \in {"Exception", "ValueError"}
                         /\ db' = db
               /\ last'.reached
                      => db'.api_calls = Append(db.api_calls,
                            [source |-> ALPHA, endpoint |-> "TIME_SERIES_DAILY",
                             symbol |-> last'.symbol, timestamp |-> IsoFormat(now)])
               /\ \A t \in WindowEnds(db'.api_calls, now') :
                     Cardinality(AlphaRecordsIn(db'.api_calls, MinusHours(t, 24), t))
                         <= AlphaDailyLimit ]_vars

=============================================================================
